---- MODULE Spec2Model ----
(***************************************************************************)
(* Model of the Spotify Playlist Analyzer (src/app.py).                    *)
(*                                                                         *)
(* One run of main() is a walk of pc from "start" to "done" or "stopped";  *)
(* Streamlit re-executes main() from the top on every interaction, which   *)
(* is the Rerun action.  The upstream API (spotipy client) is the          *)
(* environment: it serves a playlist as pages and may fail any request.    *)
(*                                                                         *)
(* Python values: a dict is a function whose DOMAIN is its key set, so     *)
(* d['k'] raises KeyError exactly when "k" \notin DOMAIN d; None and the   *)
(* empty dict are both << >> (both are falsy, which is all the code tests);*)
(* a missing pagination cursor is 0.                                       *)
(***************************************************************************)
EXTENDS Integers, Sequences, FiniteSets, TLC

VARIABLES
    secrets,        \* keys present in st.secrets (the configuration store)
    sp,             \* the client returned by get_spotify_client, or "None"
    pc,             \* position of the current run of main()
    playlist_id,    \* the identifier main() works with (sequence of tokens)
    upstream,       \* the playlist the upstream API serves for this run
    playlist_info,  \* result of get_playlist_info, << >> for None
    results,        \* get_playlist_tracks: the page response last received
    tracks,         \* get_playlist_tracks: the accumulated raw items
    requests,       \* calls made on the client in this run, in order
    df,             \* the DataFrame of prepare_track_dataframe
    metrics,        \* the popularity statistics display_metrics showed
    artist_counts,  \* create_artists_plot: value_counts().head(10)
    n,              \* number of artists asked of top_artists
    widgets,        \* what the user entered: the text and the example button
    messages        \* what the page shows in this run, in order

vars == <<secrets, sp, pc, playlist_id, upstream, playlist_info, results,
          tracks, requests, df, metrics, artist_counts, n, widgets, messages>>

-----------------------------------------------------------------------------
(* Bounds of the model *)

MaxItems == 3       \* raw items in one upstream playlist
PageSize == 2       \* items the upstream puts in one page
MaxRows == 3        \* rows of a table handed to top_artists directly
MaxN == 2           \* largest n handed to top_artists directly

(* Program constants *)

TopN == 10          \* create_artists_plot: .head(10)

-----------------------------------------------------------------------------
(* Generic helpers *)

NoNext == 0
None == << >>

RECURSIVE SumSeq(_)
SumSeq(s) == IF s = << >> THEN 0 ELSE Head(s) + SumSeq(Tail(s))

RECURSIVE Flatten(_)
Flatten(ss) == IF ss = << >> THEN << >> ELSE Head(ss) \o Flatten(Tail(ss))

Take(s, k) == SubSeq(s, 1, IF k < Len(s) THEN k ELSE Len(s))

Range(s) == { s[i] : i \in 1..Len(s) }

Msg(tag, exc) == [tag |-> tag, exc |-> exc]

HasTag(ms, tag) == \E i \in 1..Len(ms) : ms[i].tag = tag

-----------------------------------------------------------------------------
(* The configuration store and the text field *)

SecretKeys == {"SPOTIPY_CLIENT_ID", "SPOTIPY_CLIENT_SECRET", "SPOTIPY_REDIRECT_URI"}

(* A text is a sequence of tokens, so that a path segment can be located. *)
ExampleId == <<"37i9dQZF1DXcBWIGoYBM5M">>
UrlWithSegment ==
    <<"https://open.spotify.com/", "playlist/", "0yrEw20VDQlagj59ckglN2", "?si=abc">>
UrlNoSegment == <<"https://open.spotify.com/", "album/", "0yrEw20VDQlagj59ckglN2">>
Texts == { << >>, ExampleId, UrlWithSegment, UrlNoSegment }

-----------------------------------------------------------------------------
(* Upstream data: raw playlist items as the API returns them *)

Track(name, artist, id, pop) ==
    [name |-> name, artists |-> <<[name |-> artist]>>,
     album |-> [name |-> "Album"], id |-> id, popularity |-> pop]

NullItem      == [track |-> None]
ItemA         == [track |-> Track("Song1", "A", "t1", 10)]
ItemB         == [track |-> [name |-> "Song2", artists |-> <<[name |-> "B"], [name |-> "A"]>>,
                             album |-> [name |-> "Album"], id |-> "t2"]]
NoArtistsItem == [track |-> [name |-> "Song3", album |-> [name |-> "Album"],
                             id |-> "t3", popularity |-> 50]]
EmptyArtistsItem ==
                 [track |-> [name |-> "Song4", artists |-> << >>,
                             album |-> [name |-> "Album"], id |-> "t4", popularity |-> 50]]
NoAlbumItem   == [track |-> [name |-> "Song5", artists |-> <<[name |-> "A"]>>,
                             id |-> "t5", popularity |-> 50]]

RawItems == {NullItem, ItemA, ItemB, NoArtistsItem, EmptyArtistsItem, NoAlbumItem}

(* A playlist is served as pages of 1..PageSize items; an empty playlist is
   one empty page.  Shapes are the page lengths, in page order. *)
RECURSIVE Shapes(_)
Shapes(m) ==
    IF m = 0 THEN { << >> }
    ELSE UNION { { <<k>> \o sh : sh \in Shapes(m - k) } :
                 k \in 1..(IF PageSize < m THEN PageSize ELSE m) }

RECURSIVE Split(_, _)
Split(items, shape) ==
    IF shape = << >> THEN << >>
    ELSE <<SubSeq(items, 1, Head(shape))>>
         \o Split(SubSeq(items, Head(shape) + 1, Len(items)), Tail(shape))

PageSeqs ==
    { << << >> >> } \cup
    UNION { UNION { { Split(items, sh) : sh \in Shapes(m) } :
                    items \in [1..m -> RawItems] } : m \in 1..MaxItems }

(* endless: the upstream never reports a page without a next cursor (after
   the last page it starts over), the case the fetcher does not guard. *)
Upstreams == [pages : PageSeqs, endless : BOOLEAN]

(* The page response for cursor c (pages are numbered from 1). *)
PageAt(up, c) ==
    LET k == Len(up.pages)
        i == ((c - 1) % k) + 1
    IN [items |-> up.pages[i],
        next  |-> IF c >= k /\ ~up.endless THEN NoNext ELSE c + 1]

(* The cursor cap of the model: one round past the longest playlist. *)
MaxCursor == MaxItems + 1

TotalTracks(up) == Len(Flatten(up.pages))

-----------------------------------------------------------------------------
(* prepare_track_dataframe *)

NoExc == ""

(* The exception building one row raises, in the order the dict literal
   evaluates its values; NoExc when the row can be built. *)
RowError(track) ==
    IF "name" \notin DOMAIN track THEN "KeyError"
    ELSE IF "artists" \notin DOMAIN track THEN "KeyError"
    ELSE IF track.artists = << >> THEN "IndexError"
    ELSE IF "name" \notin DOMAIN track.artists[1] THEN "KeyError"
    ELSE IF "album" \notin DOMAIN track THEN "KeyError"
    ELSE IF "name" \notin DOMAIN track.album THEN "KeyError"
    ELSE IF "id" \notin DOMAIN track THEN "KeyError"
    ELSE NoExc

Row(track) ==
    [name       |-> track.name,
     artist     |-> track.artists[1].name,
     album      |-> track.album.name,
     id         |-> track.id,
     popularity |-> IF "popularity" \in DOMAIN track THEN track.popularity ELSE 0]

(* `if track:` is false for None (and for an empty dict). *)
Truthy(track) == DOMAIN track # {}

Columns == {"name", "artist", "album", "id", "popularity"}

(* pd.DataFrame(list of dicts): the columns are the keys of the dicts, so
   an empty list gives a frame with no columns at all. *)
DataFrame(track_data) ==
    [columns |-> IF track_data = << >> THEN {} ELSE Columns,
     rows    |-> track_data]

NoDF == DataFrame(<< >>)

RECURSIVE track_data_of(_)
track_data_of(items) ==
    IF items = << >> THEN [exc |-> NoExc, rows |-> << >>]
    ELSE LET track == Head(items).track
             rest  == track_data_of(Tail(items))
         IN IF ~Truthy(track) THEN rest
            ELSE IF RowError(track) # NoExc THEN [exc |-> RowError(track), rows |-> << >>]
            ELSE IF rest.exc # NoExc THEN rest
            ELSE [exc |-> NoExc, rows |-> <<Row(track)>> \o rest.rows]

RECURSIVE DedupById(_)
DedupById(rows) ==
    IF rows = << >> THEN << >>
    ELSE LET d == DedupById(SubSeq(rows, 1, Len(rows) - 1))
             x == rows[Len(rows)]
         IN IF \E i \in 1..Len(d) : d[i].id = x.id THEN d ELSE Append(d, x)

(* prepare_track_dataframe with drop_duplicates(subset='id') on the result. *)
prepare_track_dataframe_dedup(items) ==
    LET r == track_data_of(items)
    IN [exc |-> r.exc, df |-> DataFrame(DedupById(r.rows))]

prepare_track_dataframe(items) ==
    LET r == track_data_of(items)
    IN [exc |-> r.exc, df |-> DataFrame(r.rows)]

-----------------------------------------------------------------------------
(* Statistics of display_metrics and the value count of create_artists_plot *)

Column(frame, c) == [i \in 1..Len(frame.rows) |-> frame.rows[i][c]]

RECURSIVE Insert(_, _)
Insert(x, s) ==
    IF s = << >> THEN <<x>>
    ELSE IF x <= Head(s) THEN <<x>> \o s
    ELSE <<Head(s)>> \o Insert(x, Tail(s))

RECURSIVE Sorted(_)
Sorted(s) == IF s = << >> THEN << >> ELSE Insert(Head(s), Sorted(Tail(s)))

(* mean is kept as <<sum, count>> and median as twice its value, so that
   no rounding is invented; the code formats both with two decimals. *)
Stats(col) ==
    LET k == Len(col)
        o == Sorted(col)
    IN [mean      |-> <<SumSeq(col), k>>,
        median_x2 |-> IF k % 2 = 1 THEN 2 * o[(k + 1) \div 2]
                      ELSE o[k \div 2] + o[(k \div 2) + 1],
        min       |-> o[1],
        max       |-> o[k]]

NoMetrics == << >>

RECURSIVE Uniq(_)
Uniq(col) ==
    IF col = << >> THEN << >>
    ELSE LET u == Uniq(SubSeq(col, 1, Len(col) - 1))
             x == col[Len(col)]
         IN IF x \in Range(u) THEN u ELSE Append(u, x)

Count(col, x) == Cardinality({ i \in 1..Len(col) : col[i] = x })

(* The counted values in order of first appearance (the hash table's order). *)
Counted(col) ==
    LET u == Uniq(col)
    IN [i \in 1..Len(u) |-> [artist |-> u[i], count |-> Count(col, u[i])]]

Perms(k) == { p \in [1..k -> 1..k] : \A i, j \in 1..k : i # j => p[i] # p[j] }

Descending(s) == \A i \in 1..(Len(s) - 1) : s[i].count >= s[i + 1].count

(* Series.value_counts(): sorted by count, descending.  pandas sorts with
   its default (unstable) sort kind and documents no order among equal
   counts, so every descending arrangement is a possible result. *)
value_counts(col) ==
    LET c == Counted(col)
        k == Len(c)
    IN { s \in { [i \in 1..k |-> c[p[i]]] : p \in Perms(k) } : Descending(s) }

(* top_artists with head(k + 1). *)
top_artists_off_by_one(frame, k) ==
    { Take(s, k + 1) : s \in value_counts(Column(frame, "artist")) }

(* df['artist'].value_counts().head(k) *)
top_artists(frame, k) == { Take(s, k) : s \in value_counts(Column(frame, "artist")) }

-----------------------------------------------------------------------------
(* The application: main() and the functions it calls *)

NoResults  == [items |-> << >>, next |-> NoNext]
NoUpstream == [pages |-> << << >> >>, endless |-> FALSE]
NoWidgets  == [text |-> << >>, button |-> FALSE]

Request(op, id, cursor) == [op |-> op, id |-> id, cursor |-> cursor]

(* get_spotify_client reading only the client id and secret. *)
get_spotify_client_no_redirect(secs, authOk) ==
    IF ~({"SPOTIPY_CLIENT_ID", "SPOTIPY_CLIENT_SECRET"} \subseteq secs)
    THEN [sp |-> "None", out |-> <<Msg("CredentialsMissing", "KeyError")>>]
    ELSE IF ~authOk
    THEN [sp |-> "None", out |-> <<Msg("AuthenticationError", "Exception")>>]
    ELSE [sp |-> "client", out |-> << >>]

(* get_spotify_client: a missing secret is a KeyError, anything else that
   goes wrong while the client is built is the generic branch; both show a
   message and fall through to `return None`. *)
get_spotify_client(secs, authOk) ==
    IF ~(SecretKeys \subseteq secs)
    THEN [sp |-> "None", out |-> <<Msg("CredentialsMissing", "KeyError")>>]
    ELSE IF ~authOk
    THEN [sp |-> "None", out |-> <<Msg("AuthenticationError", "Exception")>>]
    ELSE [sp |-> "client", out |-> << >>]

(* playlist_id_of with the query string cut off the typed text. *)
playlist_id_of_strip_query(w) ==
    IF w.button THEN ExampleId
    ELSE SelectSeq(w.text, LAMBDA tok : tok # "?si=abc")

(* The identifier main() hands to the client: the text of the field as it
   was typed, or the example identifier when the button was pressed. *)
playlist_id_of(w) == IF w.button THEN ExampleId ELSE w.text

(* main() without the try/except: the exception leaves main(). *)
main_except_uncaught(e) ==
    [pc |-> "crashed", out |-> << >>]

(* `except Exception as e` of main(): the error and the tips are shown and
   the run ends normally. *)
main_except(e) ==
    [pc |-> "done", out |-> <<Msg("ErrorAnalyzingPlaylist", e), Msg("Tips", NoExc)>>]

(* main(), lines 304-333: title, client, st.stop() when there is none. *)
Authenticate ==
    /\ pc = "start"
    /\ \E authOk \in BOOLEAN :
         LET r == get_spotify_client(secrets, authOk)
         IN /\ sp' = r.sp
            /\ messages' = <<Msg("Title", NoExc)>> \o r.out
            /\ pc' = IF r.sp = "None" THEN "stopped" ELSE "input"
    /\ UNCHANGED <<secrets, playlist_id, upstream, playlist_info, results, tracks,
                   requests, df, metrics, artist_counts, n, widgets>>

(* main(), lines 335-359: the text field, the example button, `if playlist_id`. *)
ReadInput ==
    /\ pc = "input"
    /\ \E text \in Texts, button \in BOOLEAN :
         /\ widgets' = [text |-> text, button |-> button]
         /\ playlist_id' = playlist_id_of(widgets')
    /\ messages' = Append(messages, Msg("InputForm", NoExc))
    /\ pc' = IF playlist_id' = << >> THEN "done" ELSE "info"
    /\ UNCHANGED <<secrets, sp, upstream, playlist_info, results, tracks,
                   requests, df, metrics, artist_counts, n>>

(* get_playlist_info and main(), lines 363-366: the lookup either answers
   or raises; the exception is caught inside get_playlist_info, which shows
   it and returns None, and main() then shows its own error and stops. *)
GetPlaylistInfo ==
    /\ pc = "info"
    /\ requests' = Append(requests, Request("playlist", playlist_id, 0))
    /\ \/ \E up \in Upstreams :
            /\ upstream' = up
            /\ playlist_info' = [name |-> "Playlist", owner |-> "Owner",
                                 total_tracks |-> TotalTracks(up)]
            /\ pc' = "tracks"
            /\ UNCHANGED messages
       \/ /\ playlist_info' = None
          /\ messages' = messages \o <<Msg("ErrorRetrievingPlaylistInfo", "SpotifyException"),
                                       Msg("CouldNotRetrieve", NoExc)>>
          /\ pc' = "stopped"
          /\ UNCHANGED upstream
    /\ UNCHANGED <<secrets, sp, playlist_id, results, tracks, df, metrics,
                   artist_counts, n, widgets>>

(* An exception raised by the client inside get_playlist_tracks: the frame
   of get_playlist_tracks is gone, main()'s handler runs. *)
FetchRaises(e) ==
    /\ results' = NoResults
    /\ tracks' = << >>
    /\ messages' = messages \o main_except(e).out
    /\ pc' = main_except(e).pc

(* get_playlist_tracks, lines 206-208: the first page. *)
FetchFirst ==
    /\ pc = "tracks"
    /\ requests' = Append(requests, Request("playlist_tracks", playlist_id, 1))
    /\ \/ /\ results' = PageAt(upstream, 1)
          /\ tracks' = << >> \o results'.items
          /\ pc' = "loop"
          /\ UNCHANGED messages
       \/ FetchRaises("FetchError")
    /\ UNCHANGED <<secrets, sp, playlist_id, upstream, playlist_info, df, metrics,
                   artist_counts, n, widgets>>

(* FetchNext with the assignment `tracks = results['items']` in place of
   tracks.extend(...). *)
FetchNext_overwrite ==
    /\ pc = "loop"
    /\ results.next # NoNext
    /\ results.next <= MaxCursor
    /\ requests' = Append(requests, Request("next", playlist_id, results.next))
    /\ \/ /\ results' = PageAt(upstream, results.next)
          /\ tracks' = results'.items
          /\ pc' = "loop"
          /\ UNCHANGED messages
       \/ FetchRaises("FetchError")
    /\ UNCHANGED <<secrets, sp, playlist_id, upstream, playlist_info, df, metrics,
                   artist_counts, n, widgets>>

(* get_playlist_tracks, lines 210-212: one turn of the while loop. *)
FetchNext ==
    /\ pc = "loop"
    /\ results.next # NoNext
    /\ results.next <= MaxCursor
    /\ requests' = Append(requests, Request("next", playlist_id, results.next))
    /\ \/ /\ results' = PageAt(upstream, results.next)
          /\ tracks' = tracks \o results'.items
          /\ pc' = "loop"
          /\ UNCHANGED messages
       \/ FetchRaises("FetchError")
    /\ UNCHANGED <<secrets, sp, playlist_id, upstream, playlist_info, df, metrics,
                   artist_counts, n, widgets>>

(* FetchReturn with a page limit: the loop also ends after two pages. *)
FetchReturn_page_limit ==
    /\ pc = "loop"
    /\ (results.next = NoNext \/ Len(requests) >= 3)
    /\ pc' = "prepare"
    /\ UNCHANGED <<secrets, sp, playlist_id, upstream, playlist_info, results, tracks,
                   requests, df, metrics, artist_counts, n, widgets, messages>>

(* get_playlist_tracks, lines 210 and 214: the loop ends, the list is returned. *)
FetchReturn ==
    /\ pc = "loop"
    /\ results.next = NoNext
    /\ pc' = "prepare"
    /\ UNCHANGED <<secrets, sp, playlist_id, upstream, playlist_info, results, tracks,
                   requests, df, metrics, artist_counts, n, widgets, messages>>

(* main(), line 370: df = prepare_track_dataframe(tracks). *)
Prepare ==
    /\ pc = "prepare"
    /\ LET r == prepare_track_dataframe(tracks)
       IN IF r.exc = NoExc
          THEN /\ df' = r.df
               /\ pc' = "metrics"
               /\ UNCHANGED messages
          ELSE /\ df' = NoDF
               /\ messages' = messages \o main_except(r.exc).out
               /\ pc' = main_except(r.exc).pc
    /\ UNCHANGED <<secrets, sp, playlist_id, upstream, playlist_info, results, tracks,
                   requests, metrics, artist_counts, n, widgets>>

(* display_metrics: the header and the playlist details are shown first;
   df['popularity'] raises KeyError on a frame without that column. *)
DisplayMetrics ==
    /\ pc = "metrics"
    /\ IF "popularity" \in df.columns
       THEN /\ metrics' = Stats(Column(df, "popularity"))
            /\ messages' = messages \o <<Msg("Header", NoExc), Msg("Popularity", NoExc)>>
            /\ pc' = "viz"
       ELSE /\ metrics' = NoMetrics
            /\ messages' = messages \o <<Msg("Header", NoExc)>> \o main_except("KeyError").out
            /\ pc' = main_except("KeyError").pc
    /\ UNCHANGED <<secrets, sp, playlist_id, upstream, playlist_info, results, tracks,
                   requests, df, artist_counts, n, widgets>>

(* display_visualizations: the histogram and the Top 10 Artists chart. *)
DisplayVisualizations ==
    /\ pc = "viz"
    /\ artist_counts' \in top_artists(df, TopN)
    /\ messages' = messages \o <<Msg("Plots", NoExc)>>
    /\ pc' = "details"
    /\ UNCHANGED <<secrets, sp, playlist_id, upstream, playlist_info, results, tracks,
                   requests, df, metrics, n, widgets>>

(* main(), lines 376-388: the track table and the CSV download button. *)
Details ==
    /\ pc = "details"
    /\ messages' = messages \o <<Msg("Table", NoExc), Msg("Download", NoExc)>>
    /\ pc' = "done"
    /\ UNCHANGED <<secrets, sp, playlist_id, upstream, playlist_info, results, tracks,
                   requests, df, metrics, artist_counts, n, widgets>>

(* Streamlit runs main() again from the top on the next interaction; nothing
   but the configuration store outlives a run. *)
Rerun ==
    /\ pc \in {"done", "stopped"}
    /\ pc' = "start"
    /\ sp' = "None"
    /\ playlist_id' = << >>
    /\ upstream' = NoUpstream
    /\ playlist_info' = None
    /\ results' = NoResults
    /\ tracks' = << >>
    /\ requests' = << >>
    /\ df' = NoDF
    /\ metrics' = NoMetrics
    /\ artist_counts' = << >>
    /\ widgets' = NoWidgets
    /\ messages' = << >>
    /\ UNCHANGED <<secrets, n>>

Init ==
    /\ secrets \in SUBSET SecretKeys
    /\ sp = "None"
    /\ pc = "start"
    /\ playlist_id = << >>
    /\ upstream = NoUpstream
    /\ playlist_info = None
    /\ results = NoResults
    /\ tracks = << >>
    /\ requests = << >>
    /\ df = NoDF
    /\ metrics = NoMetrics
    /\ artist_counts = << >>
    /\ n = TopN
    /\ widgets = NoWidgets
    /\ messages = << >>

Next ==
    \/ Authenticate
    \/ ReadInput
    \/ GetPlaylistInfo
    \/ FetchFirst
    \/ FetchNext
    \/ FetchReturn
    \/ Prepare
    \/ DisplayMetrics
    \/ DisplayVisualizations
    \/ Details
    \/ Rerun

Spec == Init /\ [][Next]_vars

(* get_playlist_tracks on its own: main() has its client, its identifier
   and the playlist information, and calls get_playlist_tracks for any
   upstream playlist.  The call runs without waiting on the user, so once
   started each of its steps is taken. *)
InitFetch ==
    /\ secrets = SecretKeys
    /\ sp = "client"
    /\ pc = "tracks"
    /\ playlist_id = ExampleId
    /\ upstream \in Upstreams
    /\ playlist_info = [name |-> "Playlist", owner |-> "Owner",
                        total_tracks |-> TotalTracks(upstream)]
    /\ results = NoResults
    /\ tracks = << >>
    /\ requests = <<Request("playlist", ExampleId, 0)>>
    /\ df = NoDF
    /\ metrics = NoMetrics
    /\ artist_counts = << >>
    /\ n = TopN
    /\ widgets = [text |-> ExampleId, button |-> FALSE]
    /\ messages = <<Msg("Title", NoExc), Msg("InputForm", NoExc)>>

NextFetch ==
    \/ FetchFirst
    \/ FetchNext
    \/ FetchReturn

SpecFetch == InitFetch /\ [][NextFetch]_vars /\ WF_vars(NextFetch)

-----------------------------------------------------------------------------
(* top_artists applied directly: the value count of line 247 with the
   number of artists as a parameter, over every small non-empty table
   (display_metrics has already failed on an empty one). *)

Artists == {"A", "a", "B"}
Pops == {10, 50, 90}
AggRows == [name : {"Song"}, artist : Artists, album : {"Album"}, id : {"t"},
            popularity : Pops]
AggTables == UNION { { DataFrame(r) : r \in [1..k -> AggRows] } : k \in 1..MaxRows }

InitAgg ==
    /\ secrets = SecretKeys
    /\ sp = "client"
    /\ pc = "top_artists"
    /\ playlist_id = ExampleId
    /\ upstream = NoUpstream
    /\ playlist_info = None
    /\ results = NoResults
    /\ tracks = << >>
    /\ requests = << >>
    /\ df \in AggTables
    /\ metrics = NoMetrics
    /\ artist_counts = << >>
    /\ n \in 0..MaxN
    /\ widgets = NoWidgets
    /\ messages = << >>

TopArtists ==
    /\ pc = "top_artists"
    /\ artist_counts' \in top_artists(df, n)
    /\ pc' = "top_done"
    /\ UNCHANGED <<secrets, sp, playlist_id, upstream, playlist_info, results, tracks,
                   requests, df, metrics, n, widgets, messages>>

NextAgg == TopArtists

SpecAgg == InitAgg /\ [][NextAgg]_vars

-----------------------------------------------------------------------------
(* Properties *)

(* The run is past get_playlist_tracks, which returned normally. *)
Fetched == pc \in {"prepare", "metrics", "viz", "details"}

(* The run is past prepare_track_dataframe, which returned normally. *)
Prepared == pc \in {"metrics", "viz", "details"}

TrackRequests == SubSeq(requests, 2, Len(requests))

(* C1: when get_playlist_tracks returns, the list is exactly the
   concatenation of the items of the pages the upstream served, in page
   order, and the pages were requested once each, in order: the first by
   playlist_tracks, page i > 1 by next with the cursor of page i - 1. *)
C1_Pagination ==
    Fetched =>
        /\ tracks = Flatten(upstream.pages)
        /\ Len(TrackRequests) = Len(upstream.pages)
        /\ \A i \in 1..Len(TrackRequests) :
             /\ TrackRequests[i].cursor = i
             /\ TrackRequests[i].op = IF i = 1 THEN "playlist_tracks" ELSE "next"

(* Two pages, a full one and a final partial one: all three items returned. *)
C1_Witness ==
    /\ pc = "prepare"
    /\ Len(upstream.pages) = 2
    /\ Len(upstream.pages[1]) = PageSize
    /\ Len(upstream.pages[2]) < PageSize
    /\ Len(tracks) = PageSize + Len(upstream.pages[2])

WellFormed(item) == ~Truthy(item.track) \/ RowError(item.track) = NoExc

RECURSIVE ExpectedRows(_)
ExpectedRows(items) ==
    IF items = << >> THEN << >>
    ELSE LET t == Head(items).track
         IN (IF Truthy(t)
             THEN <<[name |-> t.name, artist |-> t.artists[1].name, album |-> t.album.name,
                     id |-> t.id,
                     popularity |-> IF "popularity" \in DOMAIN t THEN t.popularity ELSE 0]>>
             ELSE << >>) \o ExpectedRows(Tail(items))

(* C2: on a list of well-formed items prepare_track_dataframe does not
   fail, and its table has one row per item with a non-null track, in input
   order, duplicates kept; so the table never has more rows than there are
   raw items, which is the playlist's total track count. *)
C2_Normalize ==
    /\ [](Prepared =>
            /\ df.rows = ExpectedRows(tracks)
            /\ Len(df.rows) <= Len(tracks)
            /\ Len(df.rows) <= playlist_info.total_tracks)
    /\ [][(pc = "prepare" /\ \A i \in 1..Len(tracks) : WellFormed(tracks[i]))
            => pc' = "metrics"]_vars

(* The same track twice around a null track: two rows with the same id. *)
C2_Witness ==
    /\ pc = "metrics"
    /\ tracks = <<ItemA, NullItem, ItemA>>
    /\ Len(df.rows) = 2
    /\ df.rows[1].id = df.rows[2].id

Malformed(item) == Truthy(item.track) /\ RowError(item.track) # NoExc

RECURSIVE WellFormedOnly(_)
WellFormedOnly(items) ==
    IF items = << >> THEN << >>
    ELSE (IF Malformed(Head(items)) THEN << >> ELSE <<Head(items)>>)
         \o WellFormedOnly(Tail(items))

ShowsError(ms) == HasTag(ms, "ErrorAnalyzingPlaylist")

(* C3: a malformed item (track without artists, with an empty artist list
   or without album) is skipped: normalization goes on to a table of the
   remaining well-formed items and no error is shown. *)
C3_MalformedSkipped ==
    [][pc = "prepare" =>
         /\ pc' = "metrics"
         /\ df'.rows = ExpectedRows(WellFormedOnly(tracks))
         /\ ~ShowsError(messages')]_vars

(* C4: on an empty table display_metrics reports "no data" for the four
   statistics: it raises nothing, so no error is shown and the run goes on. *)
C4_EmptyNoData ==
    [][(pc = "metrics" /\ df.rows = << >>) =>
         /\ pc' = "viz"
         /\ ~ShowsError(messages')]_vars

FirstIndex(col, x) == CHOOSE i \in 1..Len(col) : col[i] = x /\ \A j \in 1..(i - 1) : col[j] # x

(* C5: top_artists lists the artists, told apart by the exact string, by
   descending count, and artists with equal counts in the order of their
   first appearance in the table. *)
C5_TieOrder ==
    pc = "top_done" =>
        LET col == Column(df, "artist")
        IN \A i, j \in 1..Len(artist_counts) :
             i < j =>
               /\ artist_counts[i].artist # artist_counts[j].artist
               /\ artist_counts[i].count = Count(col, artist_counts[i].artist)
               /\ artist_counts[i].count >= artist_counts[j].count
               /\ artist_counts[i].count = artist_counts[j].count
                    => FirstIndex(col, artist_counts[i].artist)
                         < FirstIndex(col, artist_counts[j].artist)

Distinct(col) == Cardinality(Range(col))

CountSum(ac) == SumSeq([i \in 1..Len(ac) |-> ac[i].count])

(* C6 as stated: the output has at most n entries and at most as many as
   there are distinct artists, and its counts sum to the number of rows. *)
C6_Original ==
    pc = "top_done" =>
        /\ Len(artist_counts) <= n
        /\ Len(artist_counts) <= Distinct(Column(df, "artist"))
        /\ CountSum(artist_counts) = Len(df.rows)

Min(a, b) == IF a < b THEN a ELSE b

(* C6, amended: the output has min(n, distinct artists) entries, each the
   true count of a different artist; the counts sum to at most the number
   of rows, and to exactly that number when n is at least the number of
   distinct artists. *)
C6_TopArtistsSize ==
    pc = "top_done" =>
        LET col == Column(df, "artist")
        IN /\ Len(artist_counts) = Min(n, Distinct(col))
           /\ \A i \in 1..Len(artist_counts) :
                /\ artist_counts[i].count = Count(col, artist_counts[i].artist)
                /\ \A j \in 1..Len(artist_counts) :
                     i # j => artist_counts[i].artist # artist_counts[j].artist
           /\ CountSum(artist_counts) <= Len(df.rows)
           /\ n >= Distinct(col) => CountSum(artist_counts) = Len(df.rows)

(* More distinct artists than asked for: the listing is cut at n. *)
C6_Witness ==
    /\ pc = "top_done"
    /\ n >= 1
    /\ Distinct(Column(df, "artist")) > n
    /\ Len(artist_counts) = n
    /\ CountSum(artist_counts) < Len(df.rows)

LastExc(ms) == ms[Len(ms) - 1].exc

(* C7: whatever fails in an analysis (the playlist-info lookup, a page
   fetch on the first or a later page, normalization, aggregation), the run
   ends with an error message on the page and never with an exception that
   escapes main(); a finished run can always be followed by a new one, and
   the new run starts from nothing but the configuration store. *)
C7_FailureSurfaces ==
    /\ [](pc # "crashed")
    /\ [][/\ (pc = "info" /\ pc' # "tracks")
               => pc' = "stopped" /\ HasTag(messages', "CouldNotRetrieve")
          /\ (pc \in {"tracks", "loop"} /\ pc' \notin {"loop", "prepare"})
               => pc' = "done" /\ ShowsError(messages') /\ tracks' = << >>
          /\ (pc = "prepare" /\ pc' # "metrics")
               => pc' = "done" /\ ShowsError(messages') /\ df' = NoDF
          /\ (pc = "metrics" /\ pc' # "viz")
               => pc' = "done" /\ ShowsError(messages') /\ metrics' = NoMetrics
          /\ (pc \in {"done", "stopped"})
               => /\ pc' = "start"
                  /\ tracks' = << >> /\ df' = NoDF /\ metrics' = NoMetrics
                  /\ requests' = << >> /\ messages' = << >>
                  /\ playlist_id' = << >> /\ playlist_info' = None
                  /\ secrets' = secrets]_vars
    /\ [](pc \in {"done", "stopped"} => ENABLED Rerun)

(* A fetch that failed on a later page: the error is on the page, the
   items of the earlier pages are gone. *)
C7_Witness ==
    /\ pc = "done"
    /\ Len(requests) = 3
    /\ requests[3].op = "next"
    /\ ShowsError(messages)
    /\ LastExc(messages) = "FetchError"
    /\ tracks = << >>

IsUrl(text) == Len(text) >= 1 /\ text[1] = "https://open.spotify.com/"

HasSegment(text) == \E i \in 1..(Len(text) - 1) : text[i] = "playlist/"

(* The <id> of the `playlist/<id>` path segment, without the query string. *)
SegmentId(text) ==
    LET i == CHOOSE j \in 1..(Len(text) - 1) : text[j] = "playlist/"
    IN <<text[i + 1]>>

IdRequests == { i \in 1..Len(requests) : requests[i].op \in {"playlist", "playlist_tracks"} }

(* C8 as stated: a typed URL with a playlist/<id> segment is looked up
   under <id>; a typed URL without one is an input error and no request is
   made for it. *)
C8_Original ==
    (~widgets.button /\ IsUrl(widgets.text)) =>
        IF HasSegment(widgets.text)
        THEN \A i \in IdRequests : requests[i].id = SegmentId(widgets.text)
        ELSE requests = << >>

(* C8, amended: the identifier of the playlist-info and track requests is
   the text of the field exactly as typed, a URL included, whole and with
   its query string (the example identifier when the example button was
   pressed); only an empty field makes no request. *)
C8_IdVerbatim ==
    /\ \A i \in IdRequests :
         requests[i].id = IF widgets.button THEN ExampleId ELSE widgets.text
    /\ (~widgets.button /\ widgets.text = << >>) => requests = << >>
    /\ (pc \in {"info", "tracks", "loop"} \/ Fetched) => playlist_id # << >>

(* A typed URL went to both requests as it was typed. *)
C8_Witness ==
    /\ pc = "loop"
    /\ ~widgets.button
    /\ widgets.text = UrlWithSegment
    /\ Len(requests) = 2
    /\ requests[1].id = UrlWithSegment
    /\ requests[2].id = UrlWithSegment

(* C9: with any of the three configuration values missing, the run shows
   the credentials message, has no client and has stopped before the
   playlist input: nothing was read and no request was made. *)
C9_MissingConfig ==
    (~(SecretKeys \subseteq secrets) /\ pc # "start") =>
        /\ sp = "None"
        /\ pc = "stopped"
        /\ HasTag(messages, "CredentialsMissing")
        /\ ~HasTag(messages, "InputForm")
        /\ widgets = NoWidgets
        /\ playlist_id = << >>
        /\ requests = << >>

(* Only the redirect URI is missing. *)
C9_Witness ==
    /\ secrets = SecretKeys \ {"SPOTIPY_REDIRECT_URI"}
    /\ pc = "stopped"
    /\ HasTag(messages, "CredentialsMissing")

(* C10: the loop of get_playlist_tracks asks for exactly one page per
   cursor; it ends on a page without a next cursor, and then returns at
   once, or on an error of the client, which reaches main()'s handler as it
   was raised; it has no page limit of its own, so it returns only after
   such a page, never for an upstream that does not signal completion, and
   for one that does the fetch always comes to an end. *)
C10_FetchTerminates ==
    /\ [][pc = "loop" =>
            IF results.next = NoNext
            THEN pc' = "prepare" /\ requests' = requests /\ tracks' = tracks
            ELSE /\ requests' = Append(requests, Request("next", playlist_id, results.next))
                 /\ \/ pc' = "loop" /\ results' = PageAt(upstream, results.next)
                    \/ pc' = "done" /\ LastExc(messages') = "FetchError"]_vars
    /\ [](Fetched => results.next = NoNext /\ ~upstream.endless)
    /\ (pc = "tracks" /\ ~upstream.endless) ~> (pc \notin {"tracks", "loop"})

(* A two-page playlist was fetched with two track requests. *)
C10_Witness ==
    /\ pc = "prepare"
    /\ Len(upstream.pages) = 2
    /\ Len(requests) = 3
    /\ results.next = NoNext

====
